---- MODULE Spec2Model ----
(***************************************************************************)
(* Persistence and normalisation core of the menu planner.                 *)
(*                                                                         *)
(* The repository holds two revisions of the application:                  *)
(*   variant "A": store/database.ts (menuDB, settingsDB, exportData,       *)
(*                importData) with the zustand store of store/index.ts;    *)
(*   variant "B": the DatabaseService class and the zustand store built    *)
(*                on it (services/database + store, unnamed/part_002).     *)
(* One state variable, variant, is fixed at Init and selects the revision  *)
(* whose code an action follows.                                           *)
(***************************************************************************)
EXTENDS Integers, Sequences, FiniteSets, TLC

VARIABLES
    variant,      \* "A" or "B": the revision of the code that runs
    menus,        \* IndexedDB object store 'menus': primary key id -> record
    settings,     \* IndexedDB object store 'settings': the single stored blob
    last,         \* the last record-store call: its name and its outcome
    dbOpen,       \* B: DatabaseService.db is not null
    memMenus,     \* in-memory list of the zustand store (A: menus, B: menuHistory)
    error,        \* error field of the zustand store
    timerPending, \* A: a setTimeout(() => set({error: null}), 3000) is outstanding
    clock,        \* wall clock read by new Date()
    normalizer,   \* which response normalizer runs
    content,      \* the text the AI provider answered, as a sequence of tokens
    result,       \* what the normalizer gave its caller
    itemTime,     \* the time field of an element of the answer
    duration,     \* the time of the menu item made from that element
    apiKeys,      \* B: apiKeys of the zustand store (the keys it holds)
    currentMenuResults, \* B: the generated candidates of the zustand store
    tasks,        \* the handlers in flight, in the order of their pending request
    request       \* one call of generateMenu (part_001): its inputs and progress

vars == <<variant, menus, settings, last, dbOpen, memMenus, error, timerPending,
          clock, normalizer, content, result, itemTime, duration,
                 apiKeys, currentMenuResults, tasks, request>>

(***************************************************************************)
(* Bounds of the model.                                                    *)
(***************************************************************************)
MaxId == 2        \* record ids are 1..MaxId
MaxTime == 2      \* creation timestamps (and the wall clock) are 1..MaxTime
MaxDoc == 2       \* a backup document lists at most MaxDoc records
MaxContent == 5   \* an AI answer is at most MaxContent tokens long
MaxTimeLen == 4   \* a time string is at most MaxTimeLen tokens long
MaxNumber == 2    \* a numeric time field is one of 0..MaxNumber
MaxTasks == 2     \* at most MaxTasks handlers of the store are in flight

Ids == 1..MaxId
Times == 1..MaxTime
Titles == {"T1", "T2"}
Descriptions == {"D1", "D2"}

(***************************************************************************)
(* MenuRecord.  isAdopted is an optional boolean: the key may be absent,   *)
(* or present with the value undefined, true or false.                     *)
(***************************************************************************)
Adoptions == {"absent", "undefined", "true", "false"}

\* MenuRecord.theme: one tag (a string) in one revision of the types, a list
\* of tags (string[]) in the other.
ThemeTags == {"spring", "rich"}
StringTheme(tag) == [isArray |-> FALSE, tags |-> <<tag>>]
ListTheme(tags) == [isArray |-> TRUE, tags |-> tags]
Themes == {StringTheme(tag) : tag \in ThemeTags}
             \cup {ListTheme(<<"spring">>), ListTheme(<<"spring", "rich">>)}

MenuRecord == [id : Ids, title : Titles, description : Descriptions,
               createdAt : Times,
               isAdopted : Adoptions,
               theme : Themes]

\* Records handed to the record store by a caller or listed in a backup
\* document: a bounded part of MenuRecord.
ForeignDescriptions == {"D1"}
ForeignAdoptions == {"absent", "undefined"}
ForeignThemes == {StringTheme("spring")}
ForeignRecord == {r \in MenuRecord : /\ r.description \in ForeignDescriptions
                                     /\ r.isAdopted \in ForeignAdoptions
                                     /\ r.theme \in ForeignThemes}

\* Records that differ in id, creation timestamp and theme only.
ThemedRecord == {r \in MenuRecord : /\ r.title = "T1"
                                    /\ r.description = "D1"
                                    /\ r.isAdopted = "absent"}

\* The value read from record.isAdopted: an absent key reads as undefined.
AdoptedValue(r) == IF r.isAdopted = "absent" THEN "undefined" ELSE r.isAdopted

\* AppSettings / ApiKeyConfig: an object with optional keys.
SettingKeys == {"openaiKey", "claudeKey"}
NoSettings == [tag |-> "none", keys |-> {}]
UndefinedSettings == [tag |-> "undefined", keys |-> {}]
SettingsObject(ks) == [tag |-> "object", keys |-> ks]
SettingsObjects == {SettingsObject(ks) : ks \in SUBSET SettingKeys}

(***************************************************************************)
(* The object store 'menus' (keyPath 'id').                                *)
(***************************************************************************)
EmptyTable == [i \in {} |-> 0]

StoredRecords(t) == {t[i] : i \in DOMAIN t}

\* (mutant) a put under a stored key keeps the stored creation timestamp.
IdbPutMerge(t, r) ==
    [i \in (DOMAIN t) \cup {r.id} |->
        IF i # r.id THEN t[i]
        ELSE IF i \in DOMAIN t THEN [r EXCEPT !.createdAt = t[i].createdAt]
        ELSE r]

\* (mutant) a delete also removes the records of smaller keys.
IdbDeleteUpTo(t, id) == [i \in {k \in DOMAIN t : k > id} |-> t[i]]

\* IDBObjectStore.put: insert or overwrite under the record's key.
IdbPut(t, r) == [i \in (DOMAIN t) \cup {r.id} |-> IF i = r.id THEN r ELSE t[i]]

\* IDBObjectStore.delete: no error when the key is absent.
IdbDelete(t, id) == [i \in (DOMAIN t) \ {id} |-> t[i]]

\* IDBObjectStore.getAll: every record, by ascending primary key.
RECURSIVE AscendingById(_)
AscendingById(S) ==
    IF S = {} THEN <<>>
    ELSE LET first == CHOOSE r \in S : \A q \in S : r.id <= q.id
         IN  <<first>> \o AscendingById(S \ {first})

IdbGetAll(t) == AscendingById(StoredRecords(t))

\* IDBIndex.getAll on index 'by-created' (keyPath createdAt): by ascending
\* index key, ties by ascending primary key.
IndexBefore(r, q) ==
    \/ r.createdAt < q.createdAt
    \/ r.createdAt = q.createdAt /\ r.id <= q.id

RECURSIVE AscendingByCreated(_)
AscendingByCreated(S) ==
    IF S = {} THEN <<>>
    ELSE LET first == CHOOSE r \in S : \A q \in S : IndexBefore(r, q)
         IN  <<first>> \o AscendingByCreated(S \ {first})

IdbGetAllFromIndexByCreated(t) == AscendingByCreated(StoredRecords(t))

(***************************************************************************)
(* menus.sort((a, b) => new Date(b.createdAt).getTime()                    *)
(*                      - new Date(a.createdAt).getTime())                 *)
(* Array.prototype.sort is stable: insertion of each element after the     *)
(* elements that do not compare greater than it.                           *)
(***************************************************************************)
RECURSIVE InsertNewestFirst(_, _)
InsertNewestFirst(r, s) ==
    IF s = <<>> THEN <<r>>
    ELSE IF Head(s).createdAt < r.createdAt THEN <<r>> \o s
    ELSE <<Head(s)>> \o InsertNewestFirst(r, Tail(s))

\* (mutant) the comparator is a - b: oldest first.
RECURSIVE InsertOldestFirst(_, _)
InsertOldestFirst(r, s) ==
    IF s = <<>> THEN <<r>>
    ELSE IF Head(s).createdAt > r.createdAt THEN <<r>> \o s
    ELSE <<Head(s)>> \o InsertOldestFirst(r, Tail(s))

RECURSIVE SortOldestFirst(_)
SortOldestFirst(s) ==
    IF s = <<>> THEN <<>>
    ELSE InsertOldestFirst(s[Len(s)], SortOldestFirst(SubSeq(s, 1, Len(s) - 1)))

RECURSIVE SortNewestFirst(_)
SortNewestFirst(s) ==
    IF s = <<>> THEN <<>>
    ELSE InsertNewestFirst(s[Len(s)], SortNewestFirst(SubSeq(s, 1, Len(s) - 1)))

\* menuDB.getAll (A) / DatabaseService.getAllMenus (B)
GetAll(v, t) ==
    IF v = "A" THEN SortNewestFirst(IdbGetAll(t))
    ELSE SortNewestFirst(IdbGetAllFromIndexByCreated(t))

\* The key a record has in the index 'by-theme' (key path 'theme', not
\* multiEntry) is its theme as a whole: a string key equals the string asked
\* for when the tag is the same; an array key equals no string.
ThemeKeyIs(theme, q) == ~theme.isArray /\ theme.tags[1] = q

\* getAllFromIndex('menus', 'by-theme', theme): the records of that index key,
\* ascending by primary key.
IdbGetAllFromIndexByTheme(t, q) ==
    AscendingById({r \in StoredRecords(t) : ThemeKeyIs(r.theme, q)})

\* DatabaseService.getMenusByTheme (B)
GetMenusByTheme(t, q) == SortNewestFirst(IdbGetAllFromIndexByTheme(t, q))

\* (mutant) the description is compared with the title argument.
IsDuplicateWrongField(t, title, description) ==
    \E r \in StoredRecords(t) : r.title = title /\ r.description = title

\* menuDB.isDuplicate: exact equality of title and of description.
IsDuplicate(t, title, description) ==
    \E r \in StoredRecords(t) : r.title = title /\ r.description = description

\* settingsDB.get (A): result?.value || {} ; getApiKeys (B): apiKeys || {}
SettingsGet(s) == IF s.tag = "object" THEN s ELSE SettingsObject({})

(***************************************************************************)
(* JSON.  JSON.stringify leaves out a key whose value is undefined;        *)
(* JSON.parse gives back the keys that were written.                       *)
(***************************************************************************)
JsonRecord(r) ==
    [r EXCEPT !.isAdopted = IF @ = "undefined" THEN "absent" ELSE @]

RECURSIVE JsonArray(_)
JsonArray(s) ==
    IF s = <<>> THEN <<>> ELSE <<JsonRecord(Head(s))>> \o JsonArray(Tail(s))

(***************************************************************************)
(* The text handed to import, by what JSON.parse makes of it:              *)
(*   kind "garbage": JSON.parse throws;                                    *)
(*   kind "null"   : the text parses to null;                              *)
(*   kind "object" : an object whose key menus is absent, a number or an   *)
(*                   array of records, and whose key settings is absent    *)
(*                   or an object.                                         *)
(***************************************************************************)
Document(kind, menusKind, ms, settingsKind, ks) ==
    [kind |-> kind, menusKind |-> menusKind, menus |-> ms,
     settingsKind |-> settingsKind, settings |-> ks]

GarbageDocument == Document("garbage", "absent", <<>>, "absent", {})
NullDocument == Document("null", "absent", <<>>, "absent", {})

DocumentRecords == {JsonRecord(r) : r \in ForeignRecord}

RecordArrays == UNION {[1..n -> DocumentRecords] : n \in 0..MaxDoc}

ObjectDocuments ==
    {Document("object", "array", ms, sk, ks) :
        ms \in RecordArrays, sk \in {"object"}, ks \in SUBSET SettingKeys}
    \cup {Document("object", "array", ms, "absent", {}) : ms \in RecordArrays}
    \cup {Document("object", mk, <<>>, "object", ks) :
            mk \in {"absent", "number"}, ks \in SUBSET SettingKeys}
    \cup {Document("object", mk, <<>>, "absent", {}) : mk \in {"absent", "number"}}

Documents == {GarbageDocument, NullDocument} \cup ObjectDocuments

\* (mutant) the loop starts at the second element.
RECURSIVE AddRest(_, _)
AddRest(t, ms) ==
    IF ms = <<>> THEN [table |-> t, ok |-> TRUE]
    ELSE IF Head(ms).id \in DOMAIN t THEN [table |-> t, ok |-> FALSE]
    ELSE AddRest(IdbPut(t, Head(ms)), Tail(ms))

AddAllButFirst(t, ms) == IF ms = <<>> THEN AddRest(t, ms) ELSE AddRest(t, Tail(ms))

\* for (const menu of data.menus) await add(menu): the adds in order, up to
\* the first one that fails with ConstraintError (key already in the store).
RECURSIVE AddAll(_, _)
AddAll(t, ms) ==
    IF ms = <<>> THEN [table |-> t, ok |-> TRUE]
    ELSE IF Head(ms).id \in DOMAIN t THEN [table |-> t, ok |-> FALSE]
    ELSE AddAll(IdbPut(t, Head(ms)), Tail(ms))

Imported(t, s, outcome) == [menus |-> t, settings |-> s, outcome |-> outcome]

\* importData of store/database.ts (A).  Every storage call commits on its
\* own; any exception is rethrown as the invalid-format error.
ImportDataA(t, s, doc) ==
    IF doc.kind = "garbage" THEN Imported(t, s, "InvalidFormat")
    ELSE IF doc.kind = "null" THEN Imported(EmptyTable, s, "InvalidFormat")
    ELSE LET added == IF doc.menusKind = "array"
                      THEN AddAll(EmptyTable, doc.menus)
                      ELSE [table |-> EmptyTable, ok |-> TRUE]
         IN  IF ~added.ok THEN Imported(added.table, s, "InvalidFormat")
             ELSE IF doc.settingsKind = "object"
                  THEN Imported(added.table, SettingsObject(doc.settings), "ok")
                  ELSE Imported(added.table, s, "ok")

\* importData of the zustand store (B): JSON.parse, then
\* DatabaseService.importData in one readwrite transaction.  A failed add
\* request aborts the transaction; an exception thrown by the loop itself
\* (data.menus not iterable) leaves the transaction to commit the clear.
ImportDataB(t, s, doc) ==
    IF doc.kind = "garbage" THEN Imported(t, s, "InvalidFormat")
    ELSE IF doc.kind = "null" \/ doc.menusKind # "array"
         THEN Imported(EmptyTable, s, "InvalidFormat")
    ELSE LET added == AddAll(EmptyTable, doc.menus)
         IN  IF ~added.ok THEN Imported(t, s, "InvalidFormat")
             ELSE IF doc.settingsKind = "object"
                  THEN Imported(added.table, SettingsObject(doc.settings), "ok")
                  ELSE Imported(added.table, UndefinedSettings, "ok")

ImportData(v, t, s, doc) ==
    IF v = "A" THEN ImportDataA(t, s, doc) ELSE ImportDataB(t, s, doc)

\* exportData (A) / exportAllData and JSON.stringify (B)
ExportData(v, t, s) ==
    Document("object", "array", JsonArray(GetAll(v, t)), "object", SettingsGet(s).keys)

(***************************************************************************)
(* The response normalizers.  An answer of the AI provider is a string; it *)
(* is modelled as a sequence of tokens, each standing for a piece of text: *)
(*   "prose"    text without brackets or fences that is not JSON           *)
(*   "["  "]"   one bracket                                                *)
(*   "fence"    three backquotes                                           *)
(*   "full"     a JSON object with title, description, detail,             *)
(*              ingredients, steps and time                                *)
(*   "noDetail" the same object without detail                             *)
(*   "noTitle"  the same object without title                              *)
(*   "bare"     the same object without detail and without time            *)
(* Values that follow one another inside brackets are separated by commas. *)
(***************************************************************************)
ItemTokens == {"full", "noDetail", "noTitle", "bare"}
Tokens == {"prose", "[", "]", "fence"} \cup ItemTokens
Contents == UNION {[1..n -> Tokens] : n \in 0..MaxContent}

AllFields == {"title", "description", "detail", "ingredients", "steps", "time"}

\* The fields a parsed array element has; an element that is itself an
\* array ("array") has none of them.
Fields(e) ==
    CASE e = "full" -> AllFields
      [] e = "noDetail" -> AllFields \ {"detail"}
      [] e = "noTitle" -> AllFields \ {"title"}
      [] e = "bare" -> AllFields \ {"detail", "time"}
      [] OTHER -> {}

\* JSON.parse: a value is an object or a bracketed list of values.
RECURSIVE IsJsonValue(_)
RECURSIVE IsJsonList(_)
IsJsonValue(s) ==
    \/ Len(s) = 1 /\ s[1] \in ItemTokens
    \/ /\ Len(s) >= 2
       /\ s[1] = "["
       /\ s[Len(s)] = "]"
       /\ IsJsonList(SubSeq(s, 2, Len(s) - 1))

IsJsonList(s) ==
    \/ s = <<>>
    \/ \E k \in 1..Len(s) : /\ IsJsonValue(SubSeq(s, 1, k))
                            /\ IsJsonList(SubSeq(s, k + 1, Len(s)))

RECURSIVE JsonElements(_)
JsonElements(s) ==
    IF s = <<>> THEN <<>>
    ELSE LET k == CHOOSE k \in 1..Len(s) :
                      /\ IsJsonValue(SubSeq(s, 1, k))
                      /\ IsJsonList(SubSeq(s, k + 1, Len(s)))
         IN <<IF k = 1 THEN s[1] ELSE "array">>
                \o JsonElements(SubSeq(s, k + 1, Len(s)))

JsonParse(s) ==
    IF ~IsJsonValue(s) THEN [ok |-> FALSE, isArray |-> FALSE, elements |-> <<>>]
    ELSE IF Len(s) = 1 THEN [ok |-> TRUE, isArray |-> FALSE, elements |-> <<>>]
    ELSE [ok |-> TRUE, isArray |-> TRUE,
          elements |-> JsonElements(SubSeq(s, 2, Len(s) - 1))]

\* What a normalizer gives its caller: a list of menu items or an exception.
\* An item tells the element it was made from, the fields it has and the
\* fields that were filled with a default.
Item(from, fields, defaulted) ==
    [from |-> from, fields |-> fields, defaulted |-> defaulted]
Returns(items) == [kind |-> "returns", items |-> items]
Throws == [kind |-> "throws", items |-> <<>>]
NoResult == [kind |-> "none", items |-> <<>>]

\* content.match(/\[[\s\S]*\]/): from the first '[' to the last ']' of the
\* text.  The objects hold the brackets of their ingredients and steps, so
\* the match can begin or end inside an object (cut).
OpenPositions(s) == {i \in 1..Len(s) : s[i] \in {"["} \cup ItemTokens}
ClosePositions(s) == {i \in 1..Len(s) : s[i] \in {"]"} \cup ItemTokens}
FirstOf(S) == CHOOSE i \in S : \A j \in S : i <= j
LastOf(S) == CHOOSE i \in S : \A j \in S : j <= i
MatchArray(s) ==
    IF OpenPositions(s) = {}
    THEN [found |-> FALSE, cut |-> FALSE, tokens |-> <<>>]
    ELSE LET i == FirstOf(OpenPositions(s))
             j == LastOf(ClosePositions(s) \cup {i})
         IN IF s[i] = "[" /\ j = i
            THEN [found |-> FALSE, cut |-> FALSE, tokens |-> <<>>]
            ELSE [found |-> TRUE,
                  cut |-> (s[i] # "[" \/ s[j] # "]"),
                  tokens |-> SubSeq(s, i, j)]

\* AIService.isValidMenuItem
IsValidMenuItem(e) ==
    {"title", "description", "detail", "ingredients", "steps"} \subseteq Fields(e)

\* AIService.fallbackParseMenuResponse: five fixed items.
FallbackMenus == [k \in 1..5 |-> Item("fallback", AllFields, {})]

\* (mutant) the elements that are not valid are dropped and the others kept.
KeepValid(elements) == SelectSeq(elements, IsValidMenuItem)
ParseMenuResponseKeepingValid(s) ==
    LET m == MatchArray(s)
        p == JsonParse(m.tokens)
    IN IF ~m.found \/ m.cut \/ ~p.ok \/ ~p.isArray THEN Returns(FallbackMenus)
       ELSE IF Len(KeepValid(p.elements)) = 0 THEN Returns(FallbackMenus)
       ELSE Returns([k \in 1..Len(KeepValid(p.elements)) |->
                       Item(KeepValid(p.elements)[k], AllFields,
                            AllFields \ Fields(KeepValid(p.elements)[k]))])

\* AIService.parseMenuResponse
ParseMenuResponse(s) ==
    LET m == MatchArray(s)
        p == JsonParse(m.tokens)
    IN IF ~m.found \/ m.cut \/ ~p.ok \/ ~p.isArray THEN Returns(FallbackMenus)
       ELSE IF \E k \in 1..Len(p.elements) : ~IsValidMenuItem(p.elements[k])
       THEN Returns(FallbackMenus)
       ELSE IF Len(p.elements) = 0 THEN Returns(FallbackMenus)
       ELSE Returns([k \in 1..Len(p.elements) |->
                       Item(p.elements[k], AllFields,
                            AllFields \ Fields(p.elements[k]))])

\* The text between the first fence and the fence after it; the whole text
\* when there are not two fences or nothing lies between them.
FencePositions(s) == {i \in 1..Len(s) : s[i] = "fence"}
Fenced(s) ==
    IF Cardinality(FencePositions(s)) < 2 THEN s
    ELSE LET i == FirstOf(FencePositions(s))
             j == FirstOf(FencePositions(s) \ {i})
         IN IF j = i + 1 THEN s ELSE SubSeq(s, i + 1, j - 1)

RequiredFields == {"title", "description", "ingredients", "steps", "time"}

\* parseAIResponse
ParseAIResponse(s) ==
    LET p == JsonParse(Fenced(s))
    IN IF ~p.ok \/ ~p.isArray THEN Throws
       ELSE IF \E k \in 1..Len(p.elements) :
                  ~(RequiredFields \subseteq Fields(p.elements[k]))
       THEN Throws
       ELSE Returns([k \in 1..Len(p.elements) |->
                       Item(p.elements[k], Fields(p.elements[k]), {})])

Normalize(n, s) ==
    IF n = "parseMenuResponse" THEN ParseMenuResponse(s) ELSE ParseAIResponse(s)

(***************************************************************************)
(* The time field of an element.  It is absent, a number, or a string; a   *)
(* string is a sequence of tokens: a decimal digit "0", "1" or "2", "h"    *)
(* for the hour unit, "m" for the minute unit, and "x" for any other text. *)
(***************************************************************************)
Digits == {"0", "1", "2"}
TimeTokens == Digits \cup {"h", "m", "x"}
TimeStrings == UNION {[1..n -> TimeTokens] : n \in 0..MaxTimeLen}

AbsentTime == [kind |-> "absent", n |-> 0, chars |-> <<>>]
NumberTime(n) == [kind |-> "number", n |-> n, chars |-> <<>>]
StringTime(chars) == [kind |-> "string", n |-> 0, chars |-> chars]
TimeFields ==
    {AbsentTime} \cup {NumberTime(n) : n \in 0..MaxNumber}
                 \cup {StringTime(chars) : chars \in TimeStrings}

\* A number or undefined, as parseTimeToNumber returns it.
Undefined == [defined |-> FALSE, n |-> 0]
Number(n) == [defined |-> TRUE, n |-> n]

DigitValue(d) == CASE d = "0" -> 0 [] d = "1" -> 1 [] d = "2" -> 2

\* parseInt(run, 10) of a run of digits
RECURSIVE ParseInt(_)
ParseInt(run) ==
    IF run = <<>> THEN 0
    ELSE ParseInt(SubSeq(run, 1, Len(run) - 1)) * 10 + DigitValue(run[Len(run)])

AllDigits(s) == \A i \in 1..Len(s) : s[i] \in Digits

\* timeStr.match(/(\d+)U/) for a unit U: the first run of digits that the
\* unit follows; the run as a whole is captured.
UnitPositions(s, unit) == {i \in 2..Len(s) : s[i] = unit /\ s[i - 1] \in Digits}
RunBefore(s, i) ==
    LET start == CHOOSE j \in 1..(i - 1) :
                     /\ AllDigits(SubSeq(s, j, i - 1))
                     /\ (j = 1 \/ s[j - 1] \notin Digits)
    IN SubSeq(s, start, i - 1)
MatchUnit(s, unit) ==
    IF UnitPositions(s, unit) = {} THEN [found |-> FALSE, n |-> 0]
    ELSE [found |-> TRUE,
          n |-> ParseInt(RunBefore(s, FirstOf(UnitPositions(s, unit))))]

MinutesPerHour == 60
FallbackMinutes == 30

\* AIService.parseTimeToNumber
ParseTimeToNumber(t) ==
    IF t.kind = "number" THEN Number(t.n)
    ELSE IF t.kind # "string" THEN Undefined
    ELSE IF t.chars # <<>> /\ AllDigits(t.chars) THEN Number(ParseInt(t.chars))
    ELSE LET hourMatch == MatchUnit(t.chars, "h")
             minuteMatch == MatchUnit(t.chars, "m")
             totalMinutes ==
                 (IF hourMatch.found THEN hourMatch.n * MinutesPerHour ELSE 0)
                   + (IF minuteMatch.found THEN minuteMatch.n ELSE 0)
         IN IF totalMinutes > 0 THEN Number(totalMinutes) ELSE Undefined

\* time: this.parseTimeToNumber(item.time) || 30   (0 and undefined are falsy)
ItemDuration(t) ==
    LET parsed == ParseTimeToNumber(t)
    IN IF parsed.defined /\ parsed.n # 0 THEN parsed.n ELSE FallbackMinutes

\* The duration of an item that has not been made yet.
NoDuration == [made |-> FALSE, time |-> 0]
Duration(n) == [made |-> TRUE, time |-> n]

NormalizerIdle ==
    /\ normalizer = "parseMenuResponse"
    /\ content = <<>>
    /\ result = NoResult
    /\ itemTime = AbsentTime
    /\ duration = NoDuration

\* generateMenu (part_001) has not been called.
NoRequest ==
    [keys |-> {}, preferred |-> "undefined", pc |-> "idle", calls |-> <<>>,
     returned |-> [kind |-> "nothing", from |-> "none", error |-> "none"]]

\* No handler is in flight, nothing has been generated.
NothingInFlight ==
    /\ apiKeys = {}
    /\ currentMenuResults = <<>>
    /\ tasks = <<>>
    /\ request = NoRequest

\* found tells whether the id the call was given was stored when it was made;
\* fault tells whether an IndexedDB request of the call failed.
CallOn(op, outcome, found) ==
    [op |-> op, outcome |-> outcome, found |-> found, fault |-> FALSE]
Faulted(op, outcome) ==
    [op |-> op, outcome |-> outcome, found |-> FALSE, fault |-> TRUE]
Call(op, outcome) == CallOn(op, outcome, FALSE)

(***************************************************************************)
(* Record-store calls.                                                     *)
(***************************************************************************)
AppUnchanged ==
    UNCHANGED <<variant, dbOpen, memMenus, error, timerPending, clock,
                normalizer, content, result, itemTime, duration,
                 apiKeys, currentMenuResults, tasks, request>>

\* (mutant) the insert is made with IDBObjectStore.put.
PutOverwrites(r) ==
    /\ menus' = IdbPut(menus, r)
    /\ last' = Call("put", "ok")
    /\ UNCHANGED settings
    /\ AppUnchanged

\* (mutant) an update of an id that is not stored is refused.
UpdateStrict(r) ==
    /\ IF r.id \in DOMAIN menus
       THEN /\ menus' = IdbPut(menus, r)
            /\ last' = CallOn("update", "ok", TRUE)
       ELSE /\ menus' = menus
            /\ last' = CallOn("update", "NotFound", FALSE)
    /\ UNCHANGED settings
    /\ AppUnchanged

\* menuDB.add (A): IDBObjectStore.add raises ConstraintError on an existing key.
\* DatabaseService.saveMenu (B): get, then 'same id exists' error, then add.
Put(r) ==
    /\ IF r.id \in DOMAIN menus
       THEN /\ menus' = menus
            /\ last' = CallOn("put", "AlreadyExists", TRUE)
       ELSE /\ menus' = IdbPut(menus, r)
            /\ last' = Call("put", "ok")
    /\ UNCHANGED settings
    /\ AppUnchanged

\* menuDB.update (A) / DatabaseService.updateMenu (B): IDBObjectStore.put.
Update(r) ==
    /\ menus' = IdbPut(menus, r)
    /\ last' = CallOn("update", "ok", r.id \in DOMAIN menus)
    /\ UNCHANGED settings
    /\ AppUnchanged

\* menuDB.delete (A) / DatabaseService.deleteMenu (B)
Delete(id) ==
    /\ menus' = IdbDelete(menus, id)
    /\ last' = CallOn("delete", "ok", id \in DOMAIN menus)
    /\ UNCHANGED settings
    /\ AppUnchanged

\* (mutant) the keys saved before are kept next to the new ones.
SaveSettingsMerged(s) ==
    /\ settings' = SettingsObject(SettingsGet(settings).keys \cup s.keys)
    /\ last' = Call("saveSettings", "ok")
    /\ UNCHANGED menus
    /\ AppUnchanged

\* settingsDB.save (A) / DatabaseService.saveApiKeys (B): put of the whole blob.
SaveSettings(s) ==
    /\ settings' = s
    /\ last' = Call("saveSettings", "ok")
    /\ UNCHANGED menus
    /\ AppUnchanged

\* menuDB.clear (A)
Clear ==
    /\ menus' = EmptyTable
    /\ last' = Call("clear", "ok")
    /\ UNCHANGED settings
    /\ AppUnchanged

\* import(document)
Import(doc) ==
    LET res == ImportData(variant, menus, settings, doc)
    IN  /\ menus' = res.menus
        /\ settings' = res.settings
        /\ last' = Call("import", res.outcome)
        /\ AppUnchanged

Init ==
    /\ variant \in {"A", "B"}
    /\ menus = EmptyTable
    /\ settings = NoSettings
    /\ last = Call("init", "ok")
    /\ dbOpen = TRUE
    /\ memMenus = <<>>
    /\ error = "null"
    /\ timerPending = FALSE
    /\ clock = 1
    /\ NormalizerIdle
    /\ NothingInFlight

Next ==
    \/ \E r \in ForeignRecord : Put(r)
    \/ \E r \in ForeignRecord : Update(r)
    \/ \E id \in Ids : Delete(id)
    \/ \E s \in SettingsObjects : SaveSettings(s)
    \/ Clear
    \/ \E doc \in Documents : Import(doc)

Spec == Init /\ [][Next]_vars

(***************************************************************************)
(* The application store (zustand).  Each action is one handler run to     *)
(* completion before the next one starts.                                  *)
(***************************************************************************)

\* (mutant) a new record is born rejected.
NewRecordRejected(id, title, description, now) ==
    [id |-> id, title |-> title, description |-> description,
     createdAt |-> now, isAdopted |-> "false", theme |-> StringTheme("spring")]

\* convertToMenuRecord (A) / the record literal of saveMenu (B): a fresh
\* uuid, the candidate's title and description, the current time, and no
\* isAdopted key.
NewRecord(id, title, description, now) ==
    [id |-> id, title |-> title, description |-> description,
     createdAt |-> now, isAdopted |-> "absent", theme |-> StringTheme("spring")]

\* menuHistory.some(existing => existing.title === menu.title &&
\*                              existing.description === menu.description)
InHistory(list, title, description) ==
    \E k \in 1..Len(list) :
        list[k].title = title /\ list[k].description = description

\* addMenu of store/index.ts (A), called with convertToMenuRecord's record.
AddMenu(r) ==
    /\ variant = "A"
    /\ IF IsDuplicate(menus, r.title, r.description)
       THEN /\ error' = "duplicate"
            /\ last' = Call("save", "Duplicate")
            /\ UNCHANGED <<menus, memMenus, timerPending>>
       ELSE IF r.id \in DOMAIN menus
       THEN /\ error' = "saveFailed"
            /\ last' = Call("save", "Failed")
            /\ UNCHANGED <<menus, memMenus, timerPending>>
       ELSE /\ menus' = IdbPut(menus, r)
            /\ memMenus' = GetAll("A", menus')
            /\ error' = "saved"
            /\ timerPending' = TRUE
            /\ last' = Call("save", "ok")
    /\ UNCHANGED <<variant, settings, dbOpen, clock,
                 normalizer, content, result, itemTime, duration,
                 apiKeys, currentMenuResults, tasks, request>>

\* setTimeout(() => set({ error: null }), 3000) of addMenu (A)
MessageTimeout ==
    /\ variant = "A"
    /\ timerPending
    /\ error' = "null"
    /\ timerPending' \in BOOLEAN
    /\ UNCHANGED <<variant, menus, settings, last, dbOpen, memMenus, clock,
                 normalizer, content, result, itemTime, duration,
                 apiKeys, currentMenuResults, tasks, request>>

\* loadMenus of store/index.ts (A)
LoadMenus ==
    /\ variant = "A"
    /\ memMenus' = GetAll("A", menus)
    /\ error' = "null"
    /\ last' = Call("load", "ok")
    /\ UNCHANGED <<variant, menus, settings, dbOpen, timerPending, clock,
                 normalizer, content, result, itemTime, duration,
                 apiKeys, currentMenuResults, tasks, request>>

\* initialize of the zustand store (B): open the database, read the API
\* keys and the menus.
Initialize ==
    /\ variant = "B"
    /\ dbOpen' = TRUE
    /\ memMenus' = GetAll("B", menus)
    /\ error' = "null"
    /\ last' = Call("initialize", "ok")
    /\ UNCHANGED <<variant, menus, settings, timerPending, clock,
                 normalizer, content, result, itemTime, duration,
                 apiKeys, currentMenuResults, tasks, request>>

\* saveMenu of the zustand store (B).  The duplicate check reads the
\* in-memory menuHistory; DatabaseService.saveMenu throws when the database
\* is not open (ensureDB) or the id exists; loadMenuHistory follows.
SaveMenu(r) ==
    /\ variant = "B"
    /\ IF InHistory(memMenus, r.title, r.description)
       THEN /\ error' = "duplicate"
            /\ last' = Call("save", "Duplicate")
            /\ UNCHANGED <<menus, memMenus>>
       ELSE IF ~dbOpen \/ r.id \in DOMAIN menus
       THEN /\ error' = "saveFailed"
            /\ last' = Call("save", "Failed")
            /\ UNCHANGED <<menus, memMenus>>
       ELSE /\ menus' = IdbPut(menus, r)
            /\ memMenus' = GetAll("B", menus')
            /\ error' = "null"
            /\ last' = Call("save", "ok")
    /\ UNCHANGED <<variant, settings, dbOpen, timerPending, clock,
                 normalizer, content, result, itemTime, duration,
                 apiKeys, currentMenuResults, tasks, request>>

\* window.location.reload(): the in-memory state starts over, the
\* database keeps its contents.
Reload ==
    /\ memMenus' = <<>>
    /\ dbOpen' = (variant = "A")
    /\ error' = "null"
    /\ timerPending' = FALSE
    /\ last' = Call("reload", "ok")
    /\ UNCHANGED <<variant, menus, settings, clock,
                 normalizer, content, result, itemTime, duration,
                 apiKeys, currentMenuResults, tasks, request>>

\* Time passes.
Tick ==
    /\ clock < MaxTime
    /\ clock' = clock + 1
    /\ UNCHANGED <<variant, menus, settings, last, dbOpen, memMenus, error, timerPending,
                 normalizer, content, result, itemTime, duration,
                 apiKeys, currentMenuResults, tasks, request>>

\* A first launch: nothing stored, B's database not opened yet.
InitApp ==
    /\ variant \in {"A", "B"}
    /\ menus = EmptyTable
    /\ settings = NoSettings
    /\ last = Call("init", "ok")
    /\ dbOpen = (variant = "A")
    /\ memMenus = <<>>
    /\ error = "null"
    /\ timerPending = FALSE
    /\ clock = 1
    /\ NormalizerIdle
    /\ NothingInFlight

\* MenuResults (B) offers a candidate to save only after generateMenus has
\* filled currentMenuResults, and generateMenus returns early unless an API
\* key is in memory, which only initialize and updateApiKeys put there, both
\* through the open database; nothing closes the database before a reload.
HasCandidates == dbOpen

\* Saves only, one after another; uuidv4() gives an id no stored record has.
NextSave ==
    \/ LoadMenus
    \/ Initialize
    \/ \E id \in Ids \ DOMAIN menus, title \in Titles, description \in Descriptions :
          AddMenu(NewRecord(id, title, description, clock))
    \/ /\ HasCandidates
       /\ \E id \in Ids \ DOMAIN menus, title \in Titles, description \in Descriptions :
             SaveMenu(NewRecord(id, title, description, clock))
    \/ MessageTimeout
    \/ Reload
    \/ Tick

SpecSave == InitApp /\ [][NextSave]_vars

(***************************************************************************)
(* Properties.                                                             *)
(***************************************************************************)
SamePair(r, q) == r.title = q.title /\ r.description = q.description

UniquePairs(t) ==
    \A i \in DOMAIN t, j \in DOMAIN t : i # j => ~SamePair(t[i], t[j])

UniqueIds(t) ==
    \A i \in DOMAIN t, j \in DOMAIN t : i # j => t[i].id # t[j].id

\* A step that is a save of candidate (title, description).
IsSaveOf(title, description) ==
    \E id \in Ids \ DOMAIN menus :
        \/ AddMenu(NewRecord(id, title, description, clock))
        \/ HasCandidates /\ SaveMenu(NewRecord(id, title, description, clock))

C2_IdsAndPairsUnique == UniqueIds(menus) /\ UniquePairs(menus)

\* The values read from the fields of a record.
FieldValues(r) == [r EXCEPT !.isAdopted = AdoptedValue(r)]

RecordValues(list) == {FieldValues(list[k]) : k \in 1..Len(list)}

\* export() on the current store, then import() of that document on a fresh
\* store of the same revision.
RoundTrip == ImportData(variant, EmptyTable, NoSettings,
                        ExportData(variant, menus, settings))

\* C3: for every store state, import(export()) on a fresh store succeeds and
\* its getAll() holds the same records, by id and field values, as getAll()
\* of the exported store.
C3_RoundTrip ==
    /\ RoundTrip.outcome = "ok"
    /\ Len(GetAll(variant, RoundTrip.menus)) = Len(GetAll(variant, menus))
    /\ RecordValues(GetAll(variant, RoundTrip.menus)) = RecordValues(GetAll(variant, menus))

\* C3 witness: a store of two records, one of them with the isAdopted key
\* present and undefined (JSON.stringify leaves the key out), and settings.
C3_Witness ==
    /\ Cardinality(DOMAIN menus) = 2
    /\ \E i \in DOMAIN menus : menus[i].isAdopted = "undefined"
    /\ settings.tag = "object" /\ settings.keys # {}
    /\ C3_RoundTrip

\* C4: getAll() returns every stored record exactly once, newest first
\* (creation timestamps never increase along the list).
C4_GetAllNewestFirst ==
    LET list == GetAll(variant, menus)
    IN  /\ Len(list) = Cardinality(DOMAIN menus)
        /\ {list[k] : k \in 1..Len(list)} = StoredRecords(menus)
        /\ \A k \in 1..(Len(list) - 1) : list[k].createdAt >= list[k + 1].createdAt

\* C4 witness: the record with the smaller key is the older one, so the
\* order the object store (or the by-created index) returns is not the
\* order getAll() returns.
C4_Witness ==
    /\ Cardinality(DOMAIN menus) = 2
    /\ \E i \in DOMAIN menus, j \in DOMAIN menus :
          i < j /\ menus[i].createdAt < menus[j].createdAt
    /\ GetAll(variant, menus)[1].createdAt > GetAll(variant, menus)[2].createdAt

(***************************************************************************)
(* The normalizers alone: an answer arrives and is normalized once.        *)
(***************************************************************************)
InitNorm ==
    /\ variant = "A"
    /\ menus = EmptyTable
    /\ settings = NoSettings
    /\ last = Call("init", "ok")
    /\ dbOpen = TRUE
    /\ memMenus = <<>>
    /\ error = "null"
    /\ timerPending = FALSE
    /\ clock = 1
    /\ normalizer \in {"parseMenuResponse", "parseAIResponse"}
    /\ content \in Contents
    /\ result = NoResult
    /\ itemTime = AbsentTime
    /\ duration = NoDuration
    /\ NothingInFlight

\* generateMenusWithOpenAI / generateMenusWithClaude (aiService.ts) and
\* generateWithOpenAI / generateWithClaude (part_001) hand the text of the
\* answer to the normalizer and return, or throw, what it does.
NormalizeResponse ==
    /\ result = NoResult
    /\ result' = Normalize(normalizer, content)
    /\ UNCHANGED <<variant, menus, settings, last, dbOpen, memMenus, error,
                   timerPending, clock, normalizer, content, itemTime, duration,
                 apiKeys, currentMenuResults, tasks, request>>

NextNorm == NormalizeResponse

SpecNorm == InitNorm /\ [][NextNorm]_vars

\* A valid menu item has title, description, ingredients and steps.
ValidMenuItem(item) ==
    {"title", "description", "ingredients", "steps"} \subseteq item.fields

\* C5 (as claimed): for every answer text the normalizer returns a list of
\* valid menu items that is not empty; it never throws and never returns
\* the empty list.
C5_NormalizerTotal ==
    result # NoResult =>
        /\ result.kind = "returns"
        /\ Len(result.items) > 0
        /\ \A k \in 1..Len(result.items) : ValidMenuItem(result.items[k])

\* A backup document is valid when its text parses to an object with a
\* menus array and a settings object.
ValidDocument(doc) ==
    doc.kind = "object" /\ doc.menusKind = "array" /\ doc.settingsKind = "object"

\* C6 (as claimed): an import rejected for an invalid document (text that
\* does not parse, or no menus array, or no settings object) leaves the
\* stored records and the stored settings as they were.
C6_RejectedImportChangesNothing ==
    [][\A doc \in Documents :
         (Import(doc) /\ ~ValidDocument(doc) /\ last'.outcome = "InvalidFormat")
            => (menus' = menus /\ settings' = settings)]_vars

\* C7 (as claimed): import of an invalid document fails with the
\* invalid-format error; it never succeeds.
C7_InvalidDocumentRejected ==
    [][\A doc \in Documents :
         (Import(doc) /\ ~ValidDocument(doc)) => last'.outcome = "InvalidFormat"]_vars

\* The records a document lists, and the settings object it carries (an
\* object without keys when it carries none).
DocumentRecordSet(doc) == {doc.menus[k] : k \in 1..Len(doc.menus)}
DocumentSettings(doc) ==
    IF doc.settingsKind = "object" THEN SettingsObject(doc.settings)
    ELSE SettingsObject({})

\* C8 (as claimed): after a successful import the menus table holds exactly
\* the document's records, unchanged, and the settings read back are the
\* document's settings: no key of the previous settings survives unless the
\* document has it.
C8_ImportReplacesEverything ==
    [][\A doc \in Documents :
         (Import(doc) /\ last'.outcome = "ok")
            => /\ StoredRecords(menus') = DocumentRecordSet(doc)
               /\ SettingsGet(settings') = DocumentSettings(doc)]_vars

\* C9: put(record) under an id that is stored fails with the already-exists
\* error and changes neither the stored records nor the settings.
C9_PutExistingIdRefused ==
    [][\A r \in ForeignRecord :
         (Put(r) /\ r.id \in DOMAIN menus)
            => /\ last'.outcome = "AlreadyExists"
               /\ menus' = menus
               /\ settings' = settings]_vars

\* C9 witness: a put has just been refused because its id is stored.
C9_Witness ==
    /\ last = CallOn("put", "AlreadyExists", TRUE)
    /\ menus # EmptyTable

\* C10 (as claimed): update(record) under an id that is not stored fails
\* with the not-found error and stores nothing.
C10_UpdateMissingIdRefused ==
    [][\A r \in ForeignRecord :
         (Update(r) /\ r.id \notin DOMAIN menus)
            => (last'.outcome = "NotFound" /\ menus' = menus)]_vars

\* C10 (amended): update(record) under an id that is not stored does not
\* fail: it inserts the record, and the records stored before stay as they
\* were (upsert).
C10_UpdateMissingIdInserts ==
    [][\A r \in ForeignRecord :
         (Update(r) /\ r.id \notin DOMAIN menus)
            => /\ last'.outcome = "ok"
               /\ StoredRecords(menus') = StoredRecords(menus) \cup {r}
               /\ settings' = settings]_vars

\* C10 witness: an update under an id that was not stored has just returned
\* without error, next to a record that was stored before.
C10_Witness ==
    /\ last = CallOn("update", "ok", FALSE)
    /\ Cardinality(DOMAIN menus) = 2

\* C11: update(record) under an id that is stored replaces the stored
\* record of that id by the argument in full and leaves the number of
\* records, every record of another id and the settings as they were.
C11_UpdateReplacesInFull ==
    [][\A r \in ForeignRecord :
         (Update(r) /\ r.id \in DOMAIN menus)
            => /\ last'.outcome = "ok"
               /\ menus'[r.id] = r
               /\ DOMAIN menus' = DOMAIN menus
               /\ \A i \in DOMAIN menus \ {r.id} : menus'[i] = menus[i]
               /\ settings' = settings]_vars

\* C11 witness: an update under a stored id has just returned, next to a
\* record of another id.
C11_Witness ==
    /\ last = CallOn("update", "ok", TRUE)
    /\ Cardinality(DOMAIN menus) = 2

\* C12: delete(id) removes the record of that id and no other; under an id
\* that is not stored it raises no error and leaves the store as it was;
\* deleting the same id again changes nothing more.
C12_DeleteIdempotent ==
    /\ [](\A id \in Ids :
            IdbDelete(IdbDelete(menus, id), id) = IdbDelete(menus, id))
    /\ [][\A id \in Ids :
            Delete(id)
               => /\ last'.outcome = "ok"
                  /\ StoredRecords(menus') = {r \in StoredRecords(menus) : r.id # id}
                  /\ id \notin DOMAIN menus => menus' = menus
                  /\ settings' = settings]_vars

\* C12 witness: a delete under an id that is not stored has just returned
\* without error, and a record of another id is stored.
C12_Witness ==
    /\ last = CallOn("delete", "ok", FALSE)
    /\ menus # EmptyTable

(***************************************************************************)
(* The record store of revision B with records of every theme.             *)
(***************************************************************************)
InitTheme ==
    /\ variant = "B"
    /\ menus = EmptyTable
    /\ settings = NoSettings
    /\ last = Call("init", "ok")
    /\ dbOpen = TRUE
    /\ memMenus = <<>>
    /\ error = "null"
    /\ timerPending = FALSE
    /\ clock = 1
    /\ NormalizerIdle
    /\ NothingInFlight

NextTheme ==
    \/ \E r \in ThemedRecord : Put(r)
    \/ \E r \in ThemedRecord : Update(r)
    \/ \E id \in Ids : Delete(id)

SpecTheme == InitTheme /\ [][NextTheme]_vars

\* The themes asked for: every tag, and one no record has.
ThemeQueries == ThemeTags \cup {"autumn"}

\* The record carries the tag.
HasThemeTag(r, q) == \E k \in 1..Len(r.theme.tags) : r.theme.tags[k] = q

\* C13 (as claimed): for every store state and every theme, getByTheme
\* returns exactly the stored records that carry the theme, each once and
\* no other record, newest first; the empty list for a theme no record has.
C13_GetByThemeExact ==
    \A q \in ThemeQueries :
        LET list == GetMenusByTheme(menus, q)
            tagged == {r \in StoredRecords(menus) : HasThemeTag(r, q)}
        IN /\ {list[k] : k \in 1..Len(list)} = tagged
           /\ Len(list) = Cardinality(tagged)
           /\ \A k \in 1..(Len(list) - 1) :
                 list[k].createdAt >= list[k + 1].createdAt

\* C14: get() of the settings store returns the empty object while no
\* settings were saved; after save(s) it returns exactly s, without any key
\* of the settings saved before; save leaves the menus table as it was.
C14_SettingsOverwritten ==
    /\ [](settings = NoSettings => SettingsGet(settings) = SettingsObject({}))
    /\ [][\A s \in SettingsObjects :
            SaveSettings(s)
               => /\ last'.outcome = "ok"
                  /\ SettingsGet(settings') = s
                  /\ menus' = menus]_vars

\* C14 witness: settings with one key have just been saved in a store that
\* holds a record.
C14_Witness ==
    /\ last = Call("saveSettings", "ok")
    /\ SettingsGet(settings) = SettingsObject({"claudeKey"})
    /\ menus # EmptyTable

(***************************************************************************)
(* The time of one item: an element with some time field is mapped.        *)
(***************************************************************************)
InitTime ==
    /\ variant = "A"
    /\ menus = EmptyTable
    /\ settings = NoSettings
    /\ last = Call("init", "ok")
    /\ dbOpen = TRUE
    /\ memMenus = <<>>
    /\ error = "null"
    /\ timerPending = FALSE
    /\ clock = 1
    /\ normalizer = "parseMenuResponse"
    /\ content = <<>>
    /\ result = NoResult
    /\ itemTime \in TimeFields
    /\ duration = NoDuration
    /\ NothingInFlight

\* AIService.parseMenuResponse (second revision), the time of a mapped item
MapItemTime ==
    /\ duration = NoDuration
    /\ duration' = Duration(ItemDuration(itemTime))
    /\ UNCHANGED <<variant, menus, settings, last, dbOpen, memMenus, error,
                   timerPending, clock, normalizer, content, result, itemTime,
                   apiKeys, currentMenuResults, tasks, request>>

NextTime == MapItemTime

SpecTime == InitTime /\ [][NextTime]_vars

\* The value of a run of digits.
RECURSIVE Decimal(_)
Decimal(run) ==
    IF run = <<>> THEN 0
    ELSE Decimal(SubSeq(run, 1, Len(run) - 1)) * 10 + DigitValue(run[Len(run)])

IsRun(s) == s # <<>> /\ AllDigits(s)

\* The string is a number of hours, a number of minutes, or the first
\* followed by the second.
Front(s) == SubSeq(s, 1, Len(s) - 1)
IsHours(s) == Len(s) >= 2 /\ s[Len(s)] = "h" /\ IsRun(Front(s))
IsMinutes(s) == Len(s) >= 2 /\ s[Len(s)] = "m" /\ IsRun(Front(s))
IsHoursMinutes(s) ==
    \E k \in 2..(Len(s) - 2) :
        IsHours(SubSeq(s, 1, k)) /\ IsMinutes(SubSeq(s, k + 1, Len(s)))

\* The minutes such a string stands for: h * 60 + m.
ExpectedMinutes(s) ==
    IF IsHours(s) THEN Decimal(Front(s)) * 60
    ELSE IF IsMinutes(s) THEN Decimal(Front(s))
    ELSE LET k == CHOOSE k \in 2..(Len(s) - 2) :
                      IsHours(SubSeq(s, 1, k)) /\ IsMinutes(SubSeq(s, k + 1, Len(s)))
         IN Decimal(Front(SubSeq(s, 1, k))) * 60
              + Decimal(Front(SubSeq(s, k + 1, Len(s))))

\* An hour or a minute component can be extracted from the string.
HasComponent(s) == \E i \in 2..Len(s) : s[i] \in {"h", "m"} /\ s[i - 1] \in Digits

\* C15 (as claimed): a time string made of hours and/or minutes gives
\* h * 60 + m; a string of digits gives its number; a string without any
\* hour or minute component gives the fallback 30.
C15_TimeStringParsed ==
    (duration.made /\ itemTime.kind = "string") =>
        LET s == itemTime.chars
        IN /\ (IsHours(s) \/ IsMinutes(s) \/ IsHoursMinutes(s))
                 => duration.time = ExpectedMinutes(s)
           /\ IsRun(s) => duration.time = Decimal(s)
           /\ (~IsRun(s) /\ ~HasComponent(s)) => duration.time = 30

\* C16 (as claimed): a numeric time field is the item's time as it is, 0
\* included; an absent time field gives the fallback 30.
C16_NumericTimeKept ==
    duration.made =>
        /\ itemTime.kind = "number" => duration.time = itemTime.n
        /\ itemTime.kind = "absent" => duration.time = 30

\* The answer is an array, and nothing else, of one or more elements that
\* have title, description, ingredients and steps.
IsArrayOfItems(s) ==
    /\ Len(s) >= 3
    /\ s[1] = "["
    /\ s[Len(s)] = "]"
    /\ \A i \in 2..(Len(s) - 1) : s[i] \in {"full", "noDetail", "bare"}

\* C17 (as claimed): parseMenuResponse accepts an element without detail
\* (and without time): the array's elements are returned as parsed items,
\* one per element in order, a missing detail and a missing time filled
\* with their defaults; the fallback list is not returned in their place.
C17_DetailOptional ==
    (result # NoResult /\ normalizer = "parseMenuResponse" /\ IsArrayOfItems(content))
        => /\ result.kind = "returns"
           /\ Len(result.items) = Len(content) - 2
           /\ \A k \in 1..Len(result.items) :
                 /\ result.items[k].from = content[k + 1]
                 /\ result.items[k].defaulted = AllFields \ Fields(content[k + 1])

\* C18: the result of parseMenuResponse is one of two things.  When the
\* extracted array parses, is not empty and every element passes
\* isValidMenuItem, it is one item per element, in the array's order.  On
\* every failure (no array, parse error, one invalid element, empty array)
\* it is the fixed fallback list, the same for every failing answer.  It is
\* never a part of the elements, nor a mixture of items and fallback items.
C18_AllOrFallback ==
    (result # NoResult /\ normalizer = "parseMenuResponse") =>
        LET m == MatchArray(content)
            p == JsonParse(m.tokens)
            good == /\ m.found /\ ~m.cut /\ p.ok /\ p.isArray
                    /\ Len(p.elements) > 0
                    /\ \A k \in 1..Len(p.elements) : IsValidMenuItem(p.elements[k])
        IN /\ result.kind = "returns"
           /\ good => /\ Len(result.items) = Len(p.elements)
                      /\ \A k \in 1..Len(p.elements) :
                            result.items[k].from = p.elements[k]
           /\ ~good => result.items = FallbackMenus

\* C18 witness: an array with a valid element and an invalid one has been
\* answered with the fallback list.
C18_Witness ==
    /\ normalizer = "parseMenuResponse"
    /\ content = <<"[", "full", "noTitle", "]">>
    /\ result = Returns(FallbackMenus)

\* The answer is an array of one or more complete elements, with prose or
\* fences before it and prose, fences or further brackets after it.
WrappedArray(s) ==
    \E i, j \in 1..Len(s) :
        /\ j > i + 1
        /\ s[i] = "["
        /\ s[j] = "]"
        /\ \A k \in (i + 1)..(j - 1) : s[k] = "full"
        /\ \A k \in 1..(i - 1) : s[k] \in {"prose", "fence"}
        /\ \A k \in (j + 1)..Len(s) : s[k] \in {"prose", "fence", "[", "]"}

\* The number of elements of that array.
WrappedCount(s) == Cardinality({k \in 1..Len(s) : s[k] = "full"})

\* C19 (as claimed): for an array of valid elements wrapped in prose and/or
\* a code fence the normalizer returns exactly the items of the first
\* bracket-matched array, also when brackets follow the array; it does not
\* return the fallback list, or fail, in their place.
C19_FirstArrayExtracted ==
    (result # NoResult /\ WrappedArray(content))
        => /\ result.kind = "returns"
           /\ Len(result.items) = WrappedCount(content)
           /\ \A k \in 1..Len(result.items) : result.items[k].from = "full"

(***************************************************************************)
(* The record store and the settings store on a storage whose requests can *)
(* fail (quota, blocked or closed database, aborted transaction).          *)
(***************************************************************************)

\* The request of a writing operation fails: revision A has no catch and
\* revision B catches and throws again, so the caller gets the failure and
\* nothing is written.
WriteFails(op) ==
    /\ last' = Faulted(op, "Failed")
    /\ UNCHANGED <<menus, settings>>
    /\ AppUnchanged

\* menuDB.add / DatabaseService.saveMenu
PutOnStorage(r) == Put(r) \/ WriteFails("put")

\* menuDB.update / DatabaseService.updateMenu
UpdateOnStorage(r) == Update(r) \/ WriteFails("update")

\* menuDB.delete / DatabaseService.deleteMenu
DeleteOnStorage(id) == Delete(id) \/ WriteFails("delete")

\* settingsDB.save / DatabaseService.saveApiKeys
SaveSettingsOnStorage(s) == SaveSettings(s) \/ WriteFails("saveSettings")

\* A reading operation leaves both stores as they are.
Read(call) ==
    /\ last' = call
    /\ UNCHANGED <<menus, settings>>
    /\ AppUnchanged

\* settingsDB.get (A) lets the failure of the read through;
\* DatabaseService.getApiKeys (B) catches it and returns {}.
GetSettingsOnStorage(fails) ==
    Read(IF ~fails THEN Call("getSettings", "ok")
         ELSE IF variant = "B" THEN Faulted("getSettings", "ok")
         ELSE Faulted("getSettings", "Failed"))

\* menuDB.getAll (A) / DatabaseService.getAllMenus (B)
GetAllOnStorage(fails) ==
    Read(IF fails THEN Faulted("getAll", "Failed") ELSE Call("getAll", "ok"))

\* exportData (A) / DatabaseService.exportAllData (B): getAll, then the
\* settings read; B's settings read never throws.
ExportOnStorage(menusFail, settingsFail) ==
    Read(IF menusFail THEN Faulted("export", "Failed")
         ELSE IF ~settingsFail THEN Call("export", "ok")
         ELSE IF variant = "B" THEN Faulted("export", "ok")
         ELSE Faulted("export", "Failed"))

NextFault ==
    \/ \E r \in ForeignRecord : PutOnStorage(r)
    \/ \E r \in ForeignRecord : UpdateOnStorage(r)
    \/ \E id \in Ids : DeleteOnStorage(id)
    \/ \E s \in SettingsObjects : SaveSettingsOnStorage(s)
    \/ \E fails \in BOOLEAN : GetSettingsOnStorage(fails)
    \/ \E fails \in BOOLEAN : GetAllOnStorage(fails)
    \/ \E menusFail, settingsFail \in BOOLEAN : ExportOnStorage(menusFail, settingsFail)

SpecFault == Init /\ [][NextFault]_vars

\* C20 (as claimed): when a storage request inside a store operation
\* failed, the operation does not return a normal result: its caller gets a
\* failure.
C20_StorageFailuresPropagate == last.fault => last.outcome # "ok"

(***************************************************************************)
(* The application store with its handlers in flight.  A handler that is   *)
(* called runs to its first await; the IndexedDB requests are served in    *)
(* the order in which they were made, and the handler whose request was    *)
(* served runs on to its next await.  tasks lists the handlers that wait,  *)
(* the one whose request is served next first.                             *)
(***************************************************************************)
AdoptionStatuses == {"true", "false", "undefined"}

\* A handler in flight: its name, the await it stands at, its argument.
Task(op, pc, arg) == [op |-> op, pc |-> pc, arg |-> arg]

\* What no handler of the store writes.
OutsideStore ==
    UNCHANGED <<variant, clock, normalizer, content, result, itemTime, duration,
                request>>

\* App.tsx: a store whose error names the initialization shows the blocking
\* screen instead of the views, so no view can call a handler.
Interactive == error # "initFailed"

\* The ids of the records that saves in flight are about to add.
\* isLoading of the zustand store (B): a generation is in flight.  MenuCreate
\* shows a waiting screen instead of the form and the candidates meanwhile.
IsLoading == \E k \in 1..Len(tasks) : tasks[k].op = "generate"

\* The saves in flight, each with its record and the index of the candidate
\* it was made from (0 in A, whose view keeps no index).
SavesInFlight == {tasks[k].arg : k \in {j \in 1..Len(tasks) : tasks[j].op = "save"}}

\* What a generation can put into currentMenuResults.
GeneratedMenus ==
    LET MenuItem(title) == [title |-> title, description |-> "D1"]
    IN  {<<MenuItem(a)>> : a \in Titles}
            \cup {<<MenuItem(a), MenuItem(b)>> : a \in Titles, b \in Titles}

\* The page is loaded: the memory starts over, the handlers of the old page
\* are gone, and the mount effect calls initialize (B) or loadMenus (A).
PageLoad ==
    /\ memMenus' = <<>>
    /\ apiKeys' = {}
    /\ currentMenuResults' = <<>>
    /\ dbOpen' = (variant = "A")
    /\ error' = "null"
    /\ timerPending' = FALSE
    /\ tasks' = IF variant = "B" THEN <<Task("initialize", "open", <<>>)>>
                                 ELSE <<Task("load", "reload", <<>>)>>
    /\ last' = Call("reload", "ok")
    /\ UNCHANGED <<menus, settings>>
    /\ OutsideStore

\* initialize of the zustand store (B), called by App's mount effect or by
\* importData: openDB, getApiKeys, getAllMenus, then one set.  openFails and
\* readFails tell whether openDB and getAllMenus throw; getApiKeys swallows
\* its failure.  importData goes on right after initialize has returned.
InitializeStep(openFails, readFails) ==
    LET t == Head(tasks)
        after ==
            IF t.op = "import"
            THEN <<Task("import", "finish", <<>>)>> \o Tail(tasks)
            ELSE Tail(tasks)
    IN  /\ variant = "B"
        /\ tasks # <<>>
        /\ t.op \in {"initialize", "import"}
        /\ t.pc \in {"open", "keys", "menus"}
        /\ CASE t.pc = "open" /\ openFails ->
                  /\ error' = "initFailed"
                  /\ tasks' = after
                  /\ last' = Faulted("initialize", "Failed")
                  /\ UNCHANGED <<dbOpen, memMenus, apiKeys>>
             [] t.pc = "open" /\ ~openFails ->
                  /\ dbOpen' = TRUE
                  /\ tasks' = Append(Tail(tasks), Task(t.op, "keys", <<>>))
                  /\ last' = Call("initialize", "Pending")
                  /\ UNCHANGED <<error, memMenus, apiKeys>>
             [] t.pc = "keys" ->
                  /\ tasks' = Append(Tail(tasks),
                                     Task(t.op, "menus", SettingsGet(settings).keys))
                  /\ last' = Call("initialize", "Pending")
                  /\ UNCHANGED <<dbOpen, error, memMenus, apiKeys>>
             [] t.pc = "menus" /\ readFails ->
                  /\ error' = "initFailed"
                  /\ tasks' = after
                  /\ last' = Faulted("initialize", "Failed")
                  /\ UNCHANGED <<dbOpen, memMenus, apiKeys>>
             [] t.pc = "menus" /\ ~readFails ->
                  /\ apiKeys' = t.arg
                  /\ memMenus' = GetAll("B", menus)
                  /\ error' = "null"
                  /\ tasks' = after
                  /\ last' = Call("initialize", "ok")
                  /\ UNCHANGED dbOpen
        /\ UNCHANGED <<menus, settings, timerPending, currentMenuResults>>
        /\ OutsideStore

\* loadMenuHistory (B) called by the history view when it mounts
CallLoadMenuHistory ==
    /\ variant = "B"
    /\ Interactive
    /\ Len(tasks) < MaxTasks
    /\ IF dbOpen
       THEN /\ tasks' = Append(tasks, Task("load", "load", <<>>))
            /\ last' = Call("load", "Pending")
            /\ UNCHANGED error
       ELSE /\ error' = "loadFailed"
            /\ last' = Call("load", "Failed")
            /\ UNCHANGED tasks
    /\ UNCHANGED <<menus, settings, dbOpen, memMenus, timerPending, apiKeys,
                   currentMenuResults>>
    /\ OutsideStore

\* loadMenuHistory (B) from its await on, by itself or as the last call of
\* saveMenu, updateMenuAdoption and deleteMenu, each of which then sets
\* error to null as loadMenuHistory has done.
LoadMenuHistoryStep ==
    /\ variant = "B"
    /\ tasks # <<>>
    /\ Head(tasks).pc = "load"
    /\ memMenus' = GetAll("B", menus)
    /\ error' = "null"
    /\ tasks' = Tail(tasks)
    /\ last' = Call(Head(tasks).op, "ok")
    /\ UNCHANGED <<menus, settings, dbOpen, timerPending, apiKeys, currentMenuResults>>
    /\ OutsideStore

\* saveMenu (B) up to its first await, called by MenuResults for the k-th
\* candidate: the record literal, the duplicate check against menuHistory,
\* ensureDB.
CallSaveMenu(id, k) ==
    LET item == currentMenuResults[k]
        r == NewRecord(id, item.title, item.description, clock)
    IN  /\ variant = "B"
        /\ Interactive
        /\ ~IsLoading
        /\ Len(tasks) < MaxTasks
        /\ IF InHistory(memMenus, r.title, r.description)
           THEN /\ error' = "duplicate"
                /\ last' = Call("save", "Duplicate")
                /\ UNCHANGED tasks
           ELSE IF ~dbOpen
           THEN /\ error' = "saveFailed"
                /\ last' = Call("save", "Failed")
                /\ UNCHANGED tasks
           ELSE /\ tasks' = Append(tasks, Task("save", "get", [menu |-> r, index |-> k]))
                /\ last' = Call("save", "Pending")
                /\ UNCHANGED error
        /\ UNCHANGED <<menus, settings, dbOpen, memMenus, timerPending, apiKeys,
                       currentMenuResults>>
        /\ OutsideStore

\* DatabaseService.saveMenu inside saveMenu (B): get, then add.
SaveMenuStep ==
    LET t == Head(tasks)
    IN  /\ variant = "B"
        /\ tasks # <<>>
        /\ t.op = "save"
        /\ t.pc \in {"get", "add"}
        /\ IF t.arg.menu.id \in DOMAIN menus
           THEN /\ error' = "saveFailed"
                /\ tasks' = Tail(tasks)
                /\ last' = CallOn("save", "Failed", TRUE)
                /\ UNCHANGED menus
           ELSE IF t.pc = "get"
           THEN /\ tasks' = Append(Tail(tasks), Task("save", "add", t.arg))
                /\ last' = Call("save", "Pending")
                /\ UNCHANGED <<menus, error>>
           ELSE /\ menus' = IdbPut(menus, t.arg.menu)
                /\ tasks' = Append(Tail(tasks), Task("save", "load", t.arg))
                /\ last' = Call("save", "Added")
                /\ UNCHANGED error
        /\ UNCHANGED <<settings, dbOpen, memMenus, timerPending, apiKeys,
                       currentMenuResults>>
        /\ OutsideStore

\* updateMenuAdoption (B) up to its first await
CallUpdateMenuAdoption(id, isAdopted) ==
    /\ variant = "B"
    /\ Interactive
    /\ Len(tasks) < MaxTasks
    /\ IF dbOpen
       THEN /\ tasks' = Append(tasks, Task("adopt", "get",
                                  [id |-> id, isAdopted |-> isAdopted, menu |-> <<>>]))
            /\ last' = Call("adopt", "Pending")
            /\ UNCHANGED error
       ELSE /\ error' = "adoptFailed"
            /\ last' = Call("adopt", "Failed")
            /\ UNCHANGED tasks
    /\ UNCHANGED <<menus, settings, dbOpen, memMenus, timerPending, apiKeys,
                   currentMenuResults>>
    /\ OutsideStore

\* updateMenuAdoption (B): getMenu, the copy with the new isAdopted, updateMenu
UpdateMenuAdoptionStep ==
    LET t == Head(tasks)
    IN  /\ variant = "B"
        /\ tasks # <<>>
        /\ t.op = "adopt"
        /\ t.pc \in {"get", "put"}
        /\ IF t.pc = "get"
           THEN IF t.arg.id \in DOMAIN menus
                THEN /\ tasks' = Append(Tail(tasks),
                            Task("adopt", "put", [t.arg EXCEPT !.menu = <<menus[t.arg.id]>>]))
                     /\ last' = CallOn("adopt", "Pending", TRUE)
                     /\ UNCHANGED <<menus, error>>
                ELSE /\ error' = "adoptFailed"
                     /\ tasks' = Tail(tasks)
                     /\ last' = Call("adopt", "Failed")
                     /\ UNCHANGED menus
           ELSE /\ menus' = IdbPut(menus, [t.arg.menu[1] EXCEPT !.isAdopted = t.arg.isAdopted])
                /\ tasks' = Append(Tail(tasks), Task("adopt", "load", t.arg))
                /\ last' = CallOn("adopt", "Put", t.arg.id \in DOMAIN menus)
                /\ UNCHANGED error
        /\ UNCHANGED <<settings, dbOpen, memMenus, timerPending, apiKeys,
                       currentMenuResults>>
        /\ OutsideStore

\* deleteMenu (B) up to its first await
CallDeleteMenu(id) ==
    /\ variant = "B"
    /\ Interactive
    /\ Len(tasks) < MaxTasks
    /\ IF dbOpen
       THEN /\ tasks' = Append(tasks, Task("delete", "delete", id))
            /\ last' = Call("delete", "Pending")
            /\ UNCHANGED error
       ELSE /\ error' = "deleteFailed"
            /\ last' = Call("delete", "Failed")
            /\ UNCHANGED tasks
    /\ UNCHANGED <<menus, settings, dbOpen, memMenus, timerPending, apiKeys,
                   currentMenuResults>>
    /\ OutsideStore

\* DatabaseService.deleteMenu inside deleteMenu (B)
DeleteMenuStep ==
    LET t == Head(tasks)
    IN  /\ variant = "B"
        /\ tasks # <<>>
        /\ t.op = "delete"
        /\ t.pc = "delete"
        /\ menus' = IdbDelete(menus, t.arg)
        /\ tasks' = Append(Tail(tasks), Task("delete", "load", t.arg))
        /\ last' = CallOn("delete", "Deleted", t.arg \in DOMAIN menus)
        /\ UNCHANGED <<settings, dbOpen, memMenus, error, timerPending, apiKeys,
                       currentMenuResults>>
        /\ OutsideStore

\* importData of the zustand store (B) up to its first await: JSON.parse,
\* ensureDB.
CallImportData(doc) ==
    /\ variant = "B"
    /\ Interactive
    /\ Len(tasks) < MaxTasks
    /\ IF doc.kind = "garbage" \/ ~dbOpen
       THEN /\ error' = "importFailed"
            /\ last' = Call("import", "InvalidFormat")
            /\ UNCHANGED tasks
       ELSE /\ tasks' = Append(tasks, Task("import", "tx", doc))
            /\ last' = Call("import", "Pending")
            /\ UNCHANGED error
    /\ UNCHANGED <<menus, settings, dbOpen, memMenus, timerPending, apiKeys,
                   currentMenuResults>>
    /\ OutsideStore

\* importData (B): the transaction of DatabaseService.importData, then the
\* call of initialize; after initialize, set({ error: null }).
ImportDataStep ==
    LET t == Head(tasks)
        res == ImportDataB(menus, settings, t.arg)
    IN  /\ variant = "B"
        /\ tasks # <<>>
        /\ t.op = "import"
        /\ t.pc \in {"tx", "finish"}
        /\ IF t.pc = "finish"
           THEN /\ error' = "null"
                /\ tasks' = Tail(tasks)
                /\ last' = Call("import", "ok")
                /\ UNCHANGED <<menus, settings>>
           ELSE /\ menus' = res.menus
                /\ settings' = res.settings
                /\ IF res.outcome = "ok"
                   THEN /\ tasks' = Append(Tail(tasks), Task("import", "open", <<>>))
                        /\ last' = Call("import", "Imported")
                        /\ UNCHANGED error
                   ELSE /\ error' = "importFailed"
                        /\ tasks' = Tail(tasks)
                        /\ last' = Call("import", res.outcome)
        /\ UNCHANGED <<dbOpen, memMenus, timerPending, apiKeys, currentMenuResults>>
        /\ OutsideStore

\* updateApiKeys (B) up to its first await
CallUpdateApiKeys(ks) ==
    /\ variant = "B"
    /\ Interactive
    /\ Len(tasks) < MaxTasks
    /\ IF dbOpen
       THEN /\ tasks' = Append(tasks, Task("keys", "put", ks))
            /\ last' = Call("saveSettings", "Pending")
            /\ UNCHANGED error
       ELSE /\ error' = "keysFailed"
            /\ last' = Call("saveSettings", "Failed")
            /\ UNCHANGED tasks
    /\ UNCHANGED <<menus, settings, dbOpen, memMenus, timerPending, apiKeys,
                   currentMenuResults>>
    /\ OutsideStore

\* updateApiKeys (B): saveApiKeys, then set({ apiKeys, error: null })
UpdateApiKeysStep ==
    LET t == Head(tasks)
    IN  /\ variant = "B"
        /\ tasks # <<>>
        /\ t.op = "keys"
        /\ t.pc = "put"
        /\ settings' = SettingsObject(t.arg)
        /\ apiKeys' = t.arg
        /\ error' = "null"
        /\ tasks' = Tail(tasks)
        /\ last' = Call("saveSettings", "ok")
        /\ UNCHANGED <<menus, dbOpen, memMenus, timerPending, currentMenuResults>>
        /\ OutsideStore

\* generateMenus (B) up to its first await, with preferredProvider the
\* provider whose key is named: the key check, then isLoading and error.
CallGenerateMenus(key) ==
    /\ variant = "B"
    /\ Interactive
    /\ ~IsLoading
    /\ Len(tasks) < MaxTasks
    /\ IF key \in apiKeys
       THEN /\ error' = "null"
            /\ tasks' = Append(tasks, Task("generate", "fetch", <<>>))
            /\ last' = Call("generate", "Pending")
       ELSE /\ error' = "noKey"
            /\ last' = Call("generate", "NoKey")
            /\ UNCHANGED tasks
    /\ UNCHANGED <<menus, settings, dbOpen, memMenus, timerPending, apiKeys,
                   currentMenuResults>>
    /\ OutsideStore

\* generateMenus (B) when aiService.generateMenus returns (generated is the
\* list) or throws (generated is empty).  The provider answers when it
\* likes, whatever else is in flight.
GenerateMenusStep(k, generated) ==
    /\ variant = "B"
    /\ k \in 1..Len(tasks)
    /\ tasks[k].op = "generate"
    /\ IF generated # <<>>
       THEN /\ currentMenuResults' = generated
            /\ last' = Call("generate", "ok")
            /\ UNCHANGED error
       ELSE /\ error' = "generateFailed"
            /\ last' = Call("generate", "Failed")
            /\ UNCHANGED currentMenuResults
    /\ tasks' = SubSeq(tasks, 1, k - 1) \o SubSeq(tasks, k + 1, Len(tasks))
    /\ UNCHANGED <<menus, settings, dbOpen, memMenus, timerPending, apiKeys>>
    /\ OutsideStore

\* clearMenuResults (B), called by the buttons of MenuResults, which shows
\* them when there are candidates
ClearMenuResults ==
    /\ variant = "B"
    /\ Interactive
    /\ ~IsLoading
    /\ currentMenuResults # <<>>
    /\ currentMenuResults' = <<>>
    /\ last' = Call("clearResults", "ok")
    /\ UNCHANGED <<menus, settings, dbOpen, memMenus, error, timerPending, apiKeys,
                   tasks>>
    /\ OutsideStore

\* setCurrentView (B): set({ currentView: view, error: null })
SetCurrentView ==
    /\ variant = "B"
    /\ Interactive
    /\ error' = "null"
    /\ UNCHANGED <<menus, settings, last, dbOpen, memMenus, timerPending,
                   apiKeys, currentMenuResults, tasks>>
    /\ OutsideStore

\* clearError (B), called by the close button of Layout's error banner
ClearError ==
    /\ variant = "B"
    /\ Interactive
    /\ error' = "null"
    /\ UNCHANGED <<menus, settings, last, dbOpen, memMenus, timerPending,
                   apiKeys, currentMenuResults, tasks>>
    /\ OutsideStore

\* loadMenus (A) up to its first await
CallLoadMenus ==
    /\ variant = "A"
    /\ Len(tasks) < MaxTasks
    /\ error' = "null"
    /\ tasks' = Append(tasks, Task("load", "reload", <<>>))
    /\ last' = Call("load", "Pending")
    /\ UNCHANGED <<menus, settings, dbOpen, memMenus, timerPending, apiKeys,
                   currentMenuResults>>
    /\ OutsideStore

\* addMenu (A) up to its first await, called with convertToMenuRecord's
\* record
CallAddMenu(r) ==
    /\ variant = "A"
    /\ Len(tasks) < MaxTasks
    /\ error' = "null"
    /\ tasks' = Append(tasks, Task("save", "check", [menu |-> r, index |-> 0]))
    /\ last' = Call("save", "Pending")
    /\ UNCHANGED <<menus, settings, dbOpen, memMenus, timerPending, apiKeys,
                   currentMenuResults>>
    /\ OutsideStore

\* updateMenu (A) up to its first await, called by MenuCard's
\* handleAdoptionChange with the k-th listed record and its new status
CallUpdateMenu(k, adopted) ==
    /\ variant = "A"
    /\ Len(tasks) < MaxTasks
    /\ k \in 1..Len(memMenus)
    /\ error' = "null"
    /\ tasks' = Append(tasks, Task("adopt", "put", [memMenus[k] EXCEPT !.isAdopted = adopted]))
    /\ last' = Call("adopt", "Pending")
    /\ UNCHANGED <<menus, settings, dbOpen, memMenus, timerPending, apiKeys,
                   currentMenuResults>>
    /\ OutsideStore

\* deleteMenu (A) up to its first await, called by MenuCard's handleDelete
\* for the k-th listed record
CallDeleteMenuA(k) ==
    /\ variant = "A"
    /\ Len(tasks) < MaxTasks
    /\ k \in 1..Len(memMenus)
    /\ error' = "null"
    /\ tasks' = Append(tasks, Task("delete", "delete", memMenus[k].id))
    /\ last' = Call("delete", "Pending")
    /\ UNCHANGED <<menus, settings, dbOpen, memMenus, timerPending, apiKeys,
                   currentMenuResults>>
    /\ OutsideStore

\* The handlers of store/index.ts (A) from their first await on:
\*   addMenu    : menuDB.isDuplicate, menuDB.add, menuDB.getAll, the message
\*   updateMenu : menuDB.update, menuDB.getAll
\*   deleteMenu : menuDB.delete, menuDB.getAll
\*   loadMenus  : menuDB.getAll
StoreStepA ==
    LET t == Head(tasks)
    IN  /\ variant = "A"
        /\ tasks # <<>>
        /\ CASE t.pc = "check" ->
                  IF IsDuplicate(menus, t.arg.menu.title, t.arg.menu.description)
                  THEN /\ error' = "duplicate"
                       /\ tasks' = Tail(tasks)
                       /\ last' = Call("save", "Duplicate")
                       /\ UNCHANGED <<menus, memMenus, timerPending>>
                  ELSE /\ tasks' = Append(Tail(tasks), Task("save", "add", t.arg))
                       /\ last' = Call("save", "Pending")
                       /\ UNCHANGED <<menus, memMenus, error, timerPending>>
             [] t.pc = "add" ->
                  IF t.arg.menu.id \in DOMAIN menus
                  THEN /\ error' = "saveFailed"
                       /\ tasks' = Tail(tasks)
                       /\ last' = CallOn("save", "Failed", TRUE)
                       /\ UNCHANGED <<menus, memMenus, timerPending>>
                  ELSE /\ menus' = IdbPut(menus, t.arg.menu)
                       /\ tasks' = Append(Tail(tasks), Task("save", "reload", t.arg))
                       /\ last' = Call("save", "Added")
                       /\ UNCHANGED <<memMenus, error, timerPending>>
             [] t.pc = "put" ->
                  /\ menus' = IdbPut(menus, t.arg)
                  /\ tasks' = Append(Tail(tasks), Task("adopt", "reload", t.arg))
                  /\ last' = CallOn("adopt", "Put", t.arg.id \in DOMAIN menus)
                  /\ UNCHANGED <<memMenus, error, timerPending>>
             [] t.pc = "delete" ->
                  /\ menus' = IdbDelete(menus, t.arg)
                  /\ tasks' = Append(Tail(tasks), Task("delete", "reload", t.arg))
                  /\ last' = CallOn("delete", "Deleted", t.arg \in DOMAIN menus)
                  /\ UNCHANGED <<memMenus, error, timerPending>>
             [] t.pc = "reload" ->
                  /\ memMenus' = GetAll("A", menus)
                  /\ tasks' = Tail(tasks)
                  /\ last' = Call(t.op, "ok")
                  /\ IF t.op = "save"
                     THEN error' = "saved" /\ timerPending' = TRUE
                     ELSE UNCHANGED <<error, timerPending>>
                  /\ UNCHANGED menus
        /\ UNCHANGED <<settings, dbOpen, apiKeys, currentMenuResults>>
        /\ OutsideStore

\* The backup files the user picks in the settings view: text that is not
\* JSON, an object whose menus is a number, one record, the same record
\* twice.
BackupDocuments ==
    LET Backup(title) == JsonRecord(NewRecord(1, title, "D1", 1))
    IN  {GarbageDocument,
         Document("object", "number", <<>>, "absent", {}),
         Document("object", "array", <<Backup("T2")>>, "object", {"openaiKey"}),
         Document("object", "array", <<Backup("T1"), Backup("T1")>>, "object",
                  {"openaiKey"})}

\* A view calls a handler that reads or writes the menus.  uuidv4() gives an
\* id that no stored record and no save in flight has; MenuResults (B)
\* disables the save button of a candidate while its save is in flight
\* (savingMenus); the history view offers the records of the list.
CalledOnMenus ==
    LET FreshIds == Ids \ (DOMAIN menus \cup {s.menu.id : s \in SavesInFlight})
        Listed(id) == \E k \in 1..Len(memMenus) : memMenus[k].id = id
    IN  \/ CallLoadMenuHistory
        \/ \E id \in FreshIds, k \in 1..Len(currentMenuResults) :
              /\ \A s \in SavesInFlight : s.index # k
              /\ CallSaveMenu(id, k)
        \/ \E id \in Ids, isAdopted \in AdoptionStatuses :
              Listed(id) /\ CallUpdateMenuAdoption(id, isAdopted)
        \/ \E id \in Ids : Listed(id) /\ CallDeleteMenu(id)
        \/ \E doc \in BackupDocuments : CallImportData(doc)
        \/ CallLoadMenus
        \/ \E id \in FreshIds, title \in Titles :
              CallAddMenu(NewRecord(id, title, "D1", clock))
        \/ \E k \in 1..Len(memMenus), adopted \in AdoptionStatuses :
              CallUpdateMenu(k, adopted)
        \/ \E k \in 1..Len(memMenus) : CallDeleteMenuA(k)

\* A request is served and its handler runs on.
Served(openFails, readFails) ==
    \/ InitializeStep(openFails, readFails)
    \/ LoadMenuHistoryStep
    \/ SaveMenuStep
    \/ UpdateMenuAdoptionStep
    \/ DeleteMenuStep
    \/ ImportDataStep
    \/ UpdateApiKeysStep
    \/ StoreStepA

\* The provider answers one of the given lists, or fails.
Answered(lists) ==
    \E k \in 1..Len(tasks), generated \in lists \cup {<<>>} :
        GenerateMenusStep(k, generated)

\* A first launch: nothing stored, the page has just been loaded.
InitStore ==
    /\ variant \in {"A", "B"}
    /\ menus = EmptyTable
    /\ settings = NoSettings
    /\ last = Call("reload", "ok")
    /\ dbOpen = (variant = "A")
    /\ memMenus = <<>>
    /\ error = "null"
    /\ timerPending = FALSE
    /\ clock = 1
    /\ NormalizerIdle
    /\ apiKeys = {}
    /\ currentMenuResults = <<>>
    /\ tasks = IF variant = "B" THEN <<Task("initialize", "open", <<>>)>>
                                ELSE <<Task("load", "reload", <<>>)>>
    /\ request = NoRequest

\* The handlers of the store, up to MaxTasks of them in flight; every
\* request succeeds.
NextTasks ==
    \/ CalledOnMenus
    \/ CallUpdateApiKeys({"openaiKey"})
    \/ CallGenerateMenus("openaiKey")
    \/ ClearMenuResults
    \/ Served(FALSE, FALSE)
    \/ Answered({<<[title |-> "T1", description |-> "D1"],
                    [title |-> "T1", description |-> "D1"]>>})
    \/ MessageTimeout
    \/ PageLoad

SpecTasks == InitStore /\ [][NextTasks]_vars

(***************************************************************************)
(* Properties of the application store.                                    *)
(***************************************************************************)
\* The step in which an adoption update writes its record.
AdoptionPut ==
    /\ tasks # <<>>
    /\ Head(tasks).op = "adopt"
    /\ Head(tasks).pc = "put"
    /\ tasks' # tasks
    /\ last'.op = "adopt"
    /\ last'.outcome = "Put"

\* The ids whose record is stored before and after the step.
KeptIds == DOMAIN menus \cap DOMAIN menus'

\* C21: the adoption status of every stored record is always adopted,
\* rejected or unset; the record a save adds is unset; the step in which an adoption update writes gives the record
\* the status the update was called with, whatever its status was before
\* (so every status is reached from every other, unset included); and no
\* step but that one and an import changes the status of a record.
C21_AdoptionStates ==
    [][/\ \A id \in DOMAIN menus' : AdoptedValue(menus'[id]) \in AdoptionStatuses
       /\ last'.op = "save" /\ last'.outcome = "Added"
            => \A id \in DOMAIN menus' \ DOMAIN menus :
                    AdoptedValue(menus'[id]) = "undefined"
       /\ AdoptionPut
            => /\ Head(tasks).arg.id \in DOMAIN menus'
               /\ AdoptedValue(menus'[Head(tasks).arg.id]) = Head(tasks).arg.isAdopted
       /\ \A id \in KeptIds :
            AdoptedValue(menus'[id]) # AdoptedValue(menus[id])
                => AdoptionPut \/ last'.op = "import"
      ]_vars

\* An adoption update has returned; one record has been set to unset by an
\* update (a saved record has no isAdopted key), another one is adopted.
C21_Witness ==
    /\ tasks = <<>>
    /\ last.op = "adopt"
    /\ last.outcome = "ok"
    /\ \E id \in DOMAIN menus : menus[id].isAdopted = "undefined"
    /\ \E id \in DOMAIN menus : menus[id].isAdopted = "true"

\* The record differs from the stored one in its adoption status at most.
SameButAdoption(r, q) == [r EXCEPT !.isAdopted = q.isAdopted] = q

\* C22: the step in which an adoption update writes changes only the
\* adoption field of its record, leaves the other records as they are and
\* adds and removes none; and no other step of the store changes a record
\* that stays stored, unless it is the import replacing the whole table.
C22_OnlyAdoptionChanges ==
    [][/\ AdoptionPut
            => /\ DOMAIN menus' = DOMAIN menus
               /\ \A id \in DOMAIN menus :
                    IF id = Head(tasks).arg.id
                    THEN SameButAdoption(menus'[id], menus[id])
                    ELSE menus'[id] = menus[id]
       /\ \A id \in KeptIds :
            menus'[id] # menus[id] => AdoptionPut \/ last'.op = "import"
      ]_vars

\* C23: a step of generateMenus (the key check, the answer or the failure
\* of the provider) or of clearMenuResults leaves the menus table and the stored settings as they
\* are, and a step that adds a record to the table is a step of a save or
\* of an import.
C23_GenerationLeavesStorage ==
    [][/\ last'.op \in {"generate", "clearResults"}
            => menus' = menus /\ settings' = settings
       /\ DOMAIN menus' \ DOMAIN menus # {} => last'.op \in {"save", "import"}
      ]_vars

(***************************************************************************)
(* generateMenu: the choice between the demo menus and the AI providers.   *)
(* request holds one call of generateMenu: the keys of the settings it was *)
(* given, the preferred service, the provider calls it has made with the   *)
(* way each one settled, and what it returned.                             *)
(***************************************************************************)

\* The services that need an API key, in the order getAvailableServices
\* lists them.
Providers == <<"openai", "claude">>

\* The ways a provider call throws: the HTTP statuses the provider
\* functions tell apart, any other status, a response without content, and
\* content that parseAIResponse rejects.
Failures ==
    {"rateLimit", "invalidKey", "forbidden", "server", "status", "noContent",
     "badFormat"}

\* A variant of getAvailableServices that finds no key.
GetNoServices(keys) == <<>>

\* getAvailableServices: the providers whose key is set, openai first.
GetAvailableServices(keys) ==
    LET HasKey(s) == s \in keys IN SelectSeq(Providers, HasKey)

\* generateMenu up to its first await: the demo delay when no key is set or
\* demo is preferred, else the call of the preferred service when it has a
\* key and of the first available service when it has not.
CallGenerateMenu(keys, preferred) ==
    /\ request.pc \in {"idle", "done"}
    /\ LET availableServices == GetAvailableServices(keys)
           HasPreferred ==
               \E k \in 1..Len(availableServices) : availableServices[k] = preferred
           serviceToUse ==
               IF preferred # "undefined" /\ HasPreferred
               THEN preferred
               ELSE availableServices[1]
       IN  request' =
               IF availableServices = <<>> \/ preferred = "demo"
               THEN [NoRequest EXCEPT !.keys = keys, !.preferred = preferred,
                                      !.pc = "delay"]
               ELSE [NoRequest EXCEPT
                       !.keys = keys, !.preferred = preferred, !.pc = "first",
                       !.calls = <<[service |-> serviceToUse, outcome |-> "pending"]>>]
    /\ UNCHANGED <<variant, menus, settings, last, dbOpen, memMenus, error,
                   timerPending, clock, normalizer, content, result, itemTime,
                   duration, apiKeys, currentMenuResults, tasks>>

\* The demo delay elapses and generateMenu returns the demo menus.
DemoDelay ==
    /\ request.pc = "delay"
    /\ request' = [request EXCEPT
                     !.pc = "done",
                     !.returned = [kind |-> "demo", from |-> "none", error |-> "none"]]
    /\ UNCHANGED <<variant, menus, settings, last, dbOpen, memMenus, error,
                   timerPending, clock, normalizer, content, result, itemTime,
                   duration, apiKeys, currentMenuResults, tasks>>

\* A variant of the catch block that calls the service that failed again.
ProviderAnswersRetrying(outcome) ==
    /\ request.pc \in {"first", "second"}
    /\ LET n == Len(request.calls)
           settled == [request.calls EXCEPT ![n].outcome = outcome]
       IN  request' =
               IF outcome = "ok"
               THEN [request EXCEPT
                       !.calls = settled, !.pc = "done",
                       !.returned = [kind |-> "menus", from |-> request.calls[n].service,
                                     error |-> "none"]]
               ELSE [request EXCEPT
                       !.calls = Append(settled, [service |-> request.calls[n].service,
                                                  outcome |-> "pending"]),
                       !.pc = "second"]
    /\ UNCHANGED <<variant, menus, settings, last, dbOpen, memMenus, error,
                   timerPending, clock, normalizer, content, result, itemTime,
                   duration, apiKeys, currentMenuResults, tasks>>

\* The provider call in flight settles.  Its parsed result is returned; the
\* failure of the first call starts the call of the other available service
\* when there is one and is thrown when there is none; the failure of the
\* second call is thrown.
ProviderAnswers(outcome) ==
    /\ request.pc \in {"first", "second"}
    /\ LET n == Len(request.calls)
           service == request.calls[n].service
           settled == [request.calls EXCEPT ![n].outcome = outcome]
           IsOther(s) == s # request.calls[1].service
           otherServices == SelectSeq(GetAvailableServices(request.keys), IsOther)
       IN  request' =
               IF outcome = "ok"
               THEN [request EXCEPT
                       !.calls = settled, !.pc = "done",
                       !.returned = [kind |-> "menus", from |-> service,
                                     error |-> "none"]]
               ELSE IF request.pc = "first" /\ otherServices # <<>>
               THEN [request EXCEPT
                       !.calls = Append(settled, [service |-> otherServices[1],
                                                  outcome |-> "pending"]),
                       !.pc = "second"]
               ELSE [request EXCEPT
                       !.calls = settled, !.pc = "done",
                       !.returned = [kind |-> "error", from |-> service,
                                     error |-> outcome]]
    /\ UNCHANGED <<variant, menus, settings, last, dbOpen, memMenus, error,
                   timerPending, clock, normalizer, content, result, itemTime,
                   duration, apiKeys, currentMenuResults, tasks>>

\* The call in flight settles in one of the ways a provider call can.
Settles ==
    \/ DemoDelay
    \/ \E outcome \in {"ok"} \cup Failures : ProviderAnswers(outcome)

NextGen ==
    \/ \E keys \in SUBSET {"openai", "claude"},
          preferred \in {"openai", "claude", "demo", "undefined"} :
           CallGenerateMenu(keys, preferred)
    \/ Settles

\* The timer of the demo delay fires and a fetch settles, with a response
\* or with an error: a call in flight does not stay in flight for ever.
SpecGen == Init /\ [][NextGen]_vars /\ WF_vars(Settles)

\* The demo menus are what the request asks for: no key is set, or demo is
\* the preferred service.
DemoRequested == request.keys = {} \/ request.preferred = "demo"

\* generateMenu has returned or thrown.
Returned == request.pc = "done"

\* C24: a request made with no API key, or with demo as the preferred
\* service, calls no provider and returns the demo menus; a request made
\* with a key and without the demo preference never waits for or returns
\* the demo menus: it returns the parsed result of the provider it called
\* last, or it fails.
C24_DemoOrProvider ==
    /\ request.pc # "idle" /\ DemoRequested
         => /\ request.calls = <<>>
            /\ Returned => request.returned.kind = "demo"
    /\ request.pc # "idle" /\ ~DemoRequested
         => /\ request.pc # "delay"
            /\ Returned
                 => \/ /\ request.returned.kind = "menus"
                       /\ request.calls # <<>>
                       /\ request.calls[Len(request.calls)] =
                              [service |-> request.returned.from, outcome |-> "ok"]
                    \/ request.returned.kind = "error"

\* Demo was preferred although both keys are set, and the demo menus came
\* back.
C24_Witness ==
    /\ Returned
    /\ request.keys = {"openai", "claude"}
    /\ request.preferred = "demo"
    /\ request.returned.kind = "demo"

C25_NoPartialRestore ==
    [][\A doc \in Documents :
         (Import(doc) /\ doc.kind # "garbage" /\ last'.outcome # "ok")
            => \/ menus' = menus
               \/ /\ doc.menusKind = "array"
                  /\ StoredRecords(menus') = DocumentRecordSet(doc)]_vars

(***************************************************************************)
(* The time of a record made from a generated candidate.                   *)
(***************************************************************************)

\* convertToMenuRecord, the time of the record:
\* parseInt(aiResponse.time.replace(/[^\d]/g, '')) || 30.  Every character
\* that is not a digit is deleted and what is left is read as one number;
\* NaN (nothing left) and 0 are falsy.
ConvertToMenuRecord ==
    /\ duration = NoDuration
    /\ itemTime.kind = "string"
    /\ LET IsDigit(c) == c \in Digits
           digits == SelectSeq(itemTime.chars, IsDigit)
           parsed == IF digits = <<>> THEN Undefined ELSE Number(ParseInt(digits))
       IN  duration' = Duration(IF parsed.defined /\ parsed.n # 0
                                THEN parsed.n
                                ELSE FallbackMinutes)
    /\ last' = Call("convertToMenuRecord", "ok")
    /\ UNCHANGED <<variant, menus, settings, dbOpen, memMenus, error,
                   timerPending, clock, normalizer, content, result, itemTime,
                   apiKeys, currentMenuResults, tasks, request>>

\* A time string is turned into minutes by the normalizer or by the view
\* that saves a candidate.
SpecConvert == InitTime /\ [][MapItemTime \/ ConvertToMenuRecord]_vars

\* C29 (as claimed): the minutes convertToMenuRecord gives for a time string
\* are the minutes the normalizer gives for it (parseTimeToNumber, 30 when
\* it gives none).
C29_ConversionsAgree ==
    (duration.made /\ last.op = "convertToMenuRecord")
        => duration.time = ItemDuration(itemTime)

\* The insert of a save is served: the record of the save at the head of
\* the queue is added to the table.
SaveAdds ==
    /\ tasks # <<>>
    /\ Head(tasks).op = "save"
    /\ last'.op = "save"
    /\ last'.outcome = "Added"
    /\ menus' # menus

\* C27 (as claimed): the duplicate guard holds when saves overlap: the
\* insert of a save never adds a record whose (title, description) pair is
\* the pair of a record already stored, whichever saves were started before
\* it and however their steps were interleaved.
C27_OverlappingSavesGuarded ==
    [][SaveAdds =>
         \A id \in DOMAIN menus : ~SamePair(menus[id], Head(tasks).arg.menu)]_vars

\* C28 (as claimed): whenever no handler of the store is in flight and the
\* store was loaded, the in-memory list of records is what getAll() reads
\* from the menus table.
C28_ListMirrorsTable ==
    (tasks = <<>> /\ dbOpen /\ error # "initFailed")
        => memMenus = GetAll(variant, menus)

(***************************************************************************)
(* The store with a database that may fail to open and reads that may      *)
(* fail: openDB rejects (storage blocked or unavailable), getAllMenus      *)
(* rejects (the transaction fails).  The views call the handlers of the    *)
(* menus, of the keys and of the generation, navigate, and close the error *)
(* banner.                                                                 *)
(***************************************************************************)
NextBoot ==
    \/ CalledOnMenus
    \/ CallUpdateApiKeys({"openaiKey"})
    \/ CallGenerateMenus("openaiKey")
    \/ \E openFails, readFails \in BOOLEAN : Served(openFails, readFails)
    \/ Answered({<<[title |-> "T1", description |-> "D1"]>>})
    \/ SetCurrentView
    \/ ClearError
    \/ PageLoad

SpecBoot == InitStore /\ [][NextBoot]_vars

\* C26 (as claimed): once initialize has failed, the error stays the
\* initialization failure until the page is loaded again: no step of a
\* handler and no call of a view clears or replaces it.
C26_InitFailureStays ==
    [][(error = "initFailed" /\ ~PageLoad) => error' = "initFailed"]_vars

====
